---- MODULE Spec2Model ----
(***************************************************************************)
(* A model of awful.zone (src/awful.go): a DNS authority server that       *)
(* answers the reserved subdomains cnamepit.<base>, manycuts.<base> and    *)
(* sleep.<base> with pathological responses and everything else with a     *)
(* diagnostic TXT record.                                                  *)
(*                                                                         *)
(* A Go string is a sequence of one-character strings; a domain name is    *)
(* the string the DNS library hands to the handlers (presentation format,  *)
(* fully qualified: "q.cnamepit.example.com.").                            *)
(*                                                                         *)
(* The router (dns.ServeMux) and the listeners (dns.Server) are objects of *)
(* github.com/miekg/dns that main() builds; their behaviour is modelled as *)
(* that library implements it (ServeMux.Handle, ServeMux.match,            *)
(* ServeMux.ServeDNS, NextLabel, Server.serveUDP/serveTCPConn).            *)
(***************************************************************************)
EXTENDS Integers, Sequences, FiniteSets, TLC

VARIABLES
    reqs,   \* request slot -> the query being served in it and what was written
    now,    \* the clock, in milliseconds
    proc,   \* the process: "running", "exited", "fatal" (log.Fatal), "crashed" (panic)
    lis     \* transport -> "serving", "failed" (ListenAndServe returned), "reported"

vars == <<reqs, now, proc, lis>>

----------------------------------------------------------------------------
(* Bounds of the model *)

MaxReqs == 2        \* queries in flight at once
MaxConns == 2       \* stream connections
MaxTime == 2        \* the clock ticks one by one up to here, and from timer to timer
MaxLabelLen == 2    \* length of the generated first labels
MaxChain == 2       \* follow-up queries a resolver sends along a chain

----------------------------------------------------------------------------
(* Strings *)

Dot == "."

\* flag "base", default "example.com"
basename == <<"e","x","a","m","p","l","e",".","c","o","m">>

\* flag "ip", default "127.0.0.1"
ip == <<"1","2","7",".","0",".","0",".","1">>

sCnamepit == <<"c","n","a","m","e","p","i","t",".">>
sManycuts == <<"m","a","n","y","c","u","t","s",".">>
sSleep == <<"s","l","e","e","p",".">>
sQ == <<"q",".">>
sRoot == <<".">>

\* strings.Split(s, sep) for a one-character separator
RECURSIVE Split(_, _)
Split(s, sep) ==
    IF \A i \in 1..Len(s) : s[i] # sep
    THEN <<s>>
    ELSE LET i == CHOOSE k \in 1..Len(s) :
                      s[k] = sep /\ \A j \in 1..(k-1) : s[j] # sep
         IN  <<SubSeq(s, 1, i-1)>> \o Split(SubSeq(s, i+1, Len(s)), sep)

\* ASCII lower-casing of the letters the model's names use in upper case
ToLowerChar(c) ==
    CASE c = "S" -> "s"
      [] c = "C" -> "c"
      [] c = "Q" -> "q"
      [] OTHER   -> c

ToLower(s) == [i \in 1..Len(s) |-> ToLowerChar(s[i])]

\* dns.Fqdn: the name with a trailing dot
Fqdn(s) == IF Len(s) > 0 /\ s[Len(s)] = Dot THEN s ELSE s \o <<Dot>>

\* dns.CanonicalName: lower-cased and fully qualified
CanonicalName(s) == ToLower(Fqdn(s))

----------------------------------------------------------------------------
(* strconv.ParseInt(s, 10, 16) *)

bitSize == 16
base == 10

DigitVal(c) ==
    CASE c = "0" -> 0 [] c = "1" -> 1 [] c = "2" -> 2 [] c = "3" -> 3
      [] c = "4" -> 4 [] c = "5" -> 5 [] c = "6" -> 6 [] c = "7" -> 7
      [] c = "8" -> 8 [] c = "9" -> 9
      [] OTHER -> -1

\* strconv.ParseUint's loop: n = n*base + d, a syntax error on a non-digit.
\* (Its 64-bit overflow test cannot fire on labels of the lengths modelled.)
RECURSIVE ParseUintFrom(_, _, _)
ParseUintFrom(s, i, n) ==
    IF i > Len(s) THEN [val |-> n, err |-> "nil"]
    ELSE LET d == DigitVal(s[i]) IN
         IF d < 0 THEN [val |-> 0, err |-> "ErrSyntax"]
         ELSE ParseUintFrom(s, i + 1, n * base + d)

ParseUint(s) ==
    IF Len(s) = 0 THEN [val |-> 0, err |-> "ErrSyntax"]
    ELSE ParseUintFrom(s, 1, 0)

Cutoff16 == 2 ^ (bitSize - 1)

ParseIntWide(s) ==
    IF Len(s) = 0 THEN [val |-> 0, err |-> "ErrSyntax"]
    ELSE LET neg  == s[1] = "-"
             rest == IF s[1] = "+" \/ s[1] = "-" THEN Tail(s) ELSE s
             un   == ParseUint(rest)
         IN  IF un.err # "nil" THEN [val |-> 0, err |-> un.err]
             ELSE [val |-> IF neg THEN 0 - un.val ELSE un.val, err |-> "nil"]

ParseInt(s) ==
    IF Len(s) = 0 THEN [val |-> 0, err |-> "ErrSyntax"]
    ELSE LET neg  == s[1] = "-"
             rest == IF s[1] = "+" \/ s[1] = "-" THEN Tail(s) ELSE s
             un   == ParseUint(rest)
         IN  IF un.err # "nil" THEN [val |-> 0, err |-> un.err]
             ELSE IF ~neg /\ un.val >= Cutoff16
                  THEN [val |-> Cutoff16 - 1, err |-> "ErrRange"]
             ELSE IF neg /\ un.val > Cutoff16
                  THEN [val |-> 0 - Cutoff16, err |-> "ErrRange"]
             ELSE [val |-> IF neg THEN 0 - un.val ELSE un.val, err |-> "nil"]

----------------------------------------------------------------------------
(* The router: dns.ServeMux with the four registrations of main() *)

Handlers == {"cnamePitHandler", "manyCutsHandler", "sleepHandler", "unknownHandler"}

\* mux.HandleFunc(pattern, h): the map mux.z, keyed by the canonical pattern
Registrations ==
    { [pattern |-> CanonicalName(sCnamepit \o basename), handler |-> "cnamePitHandler"],
      [pattern |-> CanonicalName(sManycuts \o basename), handler |-> "manyCutsHandler"],
      [pattern |-> CanonicalName(sSleep \o basename),    handler |-> "sleepHandler"],
      [pattern |-> CanonicalName(sRoot),                 handler |-> "unknownHandler"] }

\* mux.z[key]: the handler registered under key, "nil" when there is none
Lookup(key) ==
    IF \E g \in Registrations : g.pattern = key
    THEN (CHOOSE g \in Registrations : g.pattern = key).handler
    ELSE "nil"

\* dns.NextLabel(s, offset) with 0-based offsets: the start of the next label
\* after offset, and whether the end of the name was reached
NextLabelFwd(s, offset) ==
    [i |-> offset + 1, end |-> offset + 1 >= Len(s)]

NextLabel(s, offset) ==
    IF Len(s) = 0 THEN [i |-> 0, end |-> TRUE]
    ELSE LET dots == { k \in offset..(Len(s) - 2) : s[k + 1] = Dot }
         IN  IF dots = {}
             THEN [i |-> (IF offset > Len(s) - 1 THEN offset ELSE Len(s) - 1) + 1,
                   end |-> TRUE]
             ELSE [i |-> (CHOOSE k \in dots : \A j \in dots : k <= j) + 1,
                   end |-> FALSE]

\* the loop of ServeMux.match from offset off: a handler registered for the
\* name from a label boundary on wins, except for a DS query, which goes on
\* to the parent zones and falls through to the "." registration
RECURSIVE MatchFrom(_, _, _, _)
MatchFrom(q, off, t, handler) ==
    LET h  == Lookup(SubSeq(q, off + 1, Len(q)))
        nl == NextLabel(q, off)
    IN  IF h # "nil" /\ t # "DS" THEN h
        ELSE LET found == IF h # "nil" THEN h ELSE handler IN
             IF nl.end
             THEN IF Lookup(sRoot) # "nil" THEN Lookup(sRoot) ELSE found
             ELSE MatchFrom(q, nl.i, t, found)

matchExact(q, t) ==
    LET h == Lookup(CanonicalName(q))
    IN  IF h # "nil" THEN h ELSE Lookup(sRoot)

match(q, t) == MatchFrom(CanonicalName(q), 0, t, "nil")

----------------------------------------------------------------------------
(* Messages and the handlers' responses *)

Transports == {"udp", "tcp"}

\* the query name of a message: its first question's, "." without one
qname(q) == IF Len(q.question) > 0 THEN q.question[1].Name ELSE sRoot

\* m := new(dns.Msg); m.SetRcode(q, rcode): an empty reply with that status
SetRcode(q, rcode) ==
    [Rcode |-> rcode, Answer |-> <<>>, Ns |-> <<>>, Extra |-> <<>>]

txtError(q, errorMsg) ==
    [SetRcode(q, "RcodeSuccess") EXCEPT
        !.Answer = << [Name |-> qname(q), Rrtype |-> "TXT", Class |-> "INET",
                       Txt |-> <<errorMsg>>] >>]

unknownReply(q) == txtError(q, "request did not match any known pattern.")

cnamePitSelf(q) ==
    [SetRcode(q, "RcodeSuccess") EXCEPT
        !.Answer = << [Name |-> qname(q), Rrtype |-> "CNAME", Class |-> "INET",
                       Target |-> qname(q)] >>]

cnamePitReply(q) ==
    [SetRcode(q, "RcodeSuccess") EXCEPT
        !.Answer = << [Name |-> qname(q), Rrtype |-> "CNAME", Class |-> "INET",
                       Target |-> sQ \o qname(q)] >>]

\* net.ParseIP on a dotted-quad string: its four bytes, "nil" when the string
\* is no address
ParseIP(s) ==
    LET f == Split(s, Dot) IN
    IF /\ Len(f) = 4
       /\ \A i \in 1..4 : ParseUint(f[i]).err = "nil" /\ ParseUint(f[i]).val <= 255
    THEN [i \in 1..4 |-> ParseUint(f[i]).val]
    ELSE "nil"

manyCutsGlueAtName(q) ==
    LET name == q.question[1].Name
        nextName == sQ \o name
    IN  [SetRcode(q, "RcodeSuccess") EXCEPT
            !.Ns = << [Name |-> name, Rrtype |-> "NS", Class |-> "INET",
                       Ns |-> nextName] >>,
            !.Extra = << [Name |-> name, Rrtype |-> "A", Class |-> "INET",
                          A |-> ParseIP(ip)] >>]

\* defined when the message has a question (q.Question[0] is indexed directly)
manyCutsReply(q) ==
    LET name == q.question[1].Name
        nextName == sQ \o name
    IN  [SetRcode(q, "RcodeSuccess") EXCEPT
            !.Ns = << [Name |-> name, Rrtype |-> "NS", Class |-> "INET",
                       Ns |-> nextName] >>,
            !.Extra = << [Name |-> nextName, Rrtype |-> "A", Class |-> "INET",
                          A |-> ParseIP(ip)] >>]

\* the first label of the query name, parsed
sleepCount(q) == ParseInt(Split(qname(q), Dot)[1])

\* time.Duration(sleepCount) * time.Microsecond, in milliseconds
DurationMicro(n) == n \div 1000

\* time.Duration(sleepCount) * time.Millisecond, in milliseconds
Duration(n) == n

\* time.Sleep(d) returns once d has elapsed (at once when d <= 0)
TimerFired(wakeAt) == now >= wakeAt

\* what ServeMux.ServeDNS answers by itself when it finds no handler
FailureRcodes == {"RcodeRefused", "RcodeServerFailure"}

----------------------------------------------------------------------------
(* Request slots *)

ReqIds == 1..MaxReqs

NoMsg == [question |-> <<>>]

FreeReq ==
    [st |-> "free", net |-> "none", conn |-> 0, msg |-> NoMsg, handler |-> "nil",
     start |-> 0, wakeAt |-> 0, resps |-> <<>>, orig |-> "nil", depth |-> 0]

Running(r) == reqs[r].st \in {"handling", "sleeping"}

\* w.WriteMsg(m)
WriteMsg(r, m) == Append(reqs[r].resps, [m |-> m, at |-> now])

\* a single goroutine serving every query
ConnBusySerial(r) ==
    \E o \in ReqIds \ {r} : Running(o)

\* a stream connection is read by one goroutine, which calls the handler and
\* reads the next message when it returned; every datagram gets a goroutine
ConnBusy(r) ==
    /\ reqs[r].net = "tcp"
    /\ \E o \in ReqIds \ {r} :
          reqs[o].net = "tcp" /\ reqs[o].conn = reqs[r].conn /\ Running(o)

\* err := <-errChan; if err != nil { log.Fatal(err) }; main returns
KeepServing(err) == "running"

ExitOnErr(err) == IF err # "nil" THEN "fatal" ELSE "exited"

----------------------------------------------------------------------------
(* The queries the model sends *)

\* first labels: every string over LabelChars up to MaxLabelLen, and the
\* labels around the 16-bit limits
LabelChars == {"-", "+", "0", "1", "x"}

EdgeLabels ==
    { <<"3","2","7","6","7">>, <<"3","2","7","6","8">>,
      <<"-","3","2","7","6","8">>, <<"-","3","2","7","6","9">>,
      <<"0","0","0","0","7">>, <<"+","3","2","7","6","7">>,
      <<"q">>, <<"Q">> }

Labels ==
    EdgeLabels \cup
    UNION { { [i \in 1..n |-> f[i]] : f \in [1..n -> LabelChars] } : n \in 1..MaxLabelLen }

\* the names below which the first labels are put
Suffixes ==
    { Fqdn(sCnamepit \o basename),
      Fqdn(sManycuts \o basename),
      Fqdn(sSleep \o basename),
      Fqdn(<<"S","l","e","e","p",".">> \o basename),
      Fqdn(<<"C","n","a","m","e","p","i","t",".">> \o basename),
      Fqdn(<<"x">> \o sSleep \o basename),
      Fqdn(<<"x">> \o sCnamepit \o basename),
      Fqdn(basename),
      Fqdn(sSleep \o <<"o","r","g">>),
      <<"f","o","o",".","b","a","r",".">> }

Names ==
    {sRoot} \cup Suffixes
      \cup { l \o <<Dot>> \o s : l \in Labels, s \in Suffixes }
      \cup { l \o <<Dot>> : l \in Labels }

Qtypes == {"A", "DS"}

Query(name, t) == [question |-> << [Name |-> name, Qtype |-> t] >>]

AllMsgs == {NoMsg} \cup { Query(n, t) : n \in Names, t \in Qtypes }

\* the queries of the concurrent server's runs
ServerMsgs ==
    { NoMsg,
      Query(<<"1",".">> \o Fqdn(sSleep \o basename), "A"),
      Query(Fqdn(sCnamepit \o basename), "A"),
      Query(Fqdn(sManycuts \o basename), "A"),
      Query(<<"f","o","o",".","b","a","r",".">>, "A") }

Endpoints ==
    { [net |-> "udp", conn |-> 0] } \cup { [net |-> "tcp", conn |-> c] : c \in 1..MaxConns }

----------------------------------------------------------------------------
(* The server: the listeners receive queries and serve each through the mux *)

\* a query reaches one of the two sockets and takes the first free slot; a
\* stream connection holds at most one query the server has not read yet
Arrive(r, m, e) ==
    /\ proc = "running"
    /\ lis[e.net] = "serving"
    /\ reqs[r].st = "free"
    /\ \A o \in 1..(r-1) : reqs[o].st # "free"
    /\ \A o \in ReqIds : ~(reqs[o].st = "arrived" /\ reqs[o].net = "tcp"
                            /\ e.net = "tcp" /\ reqs[o].conn = e.conn)
    /\ reqs' = [reqs EXCEPT ![r] =
                  [FreeReq EXCEPT !.st = "arrived", !.net = e.net, !.conn = e.conn,
                                  !.msg = m]]
    /\ UNCHANGED <<now, proc, lis>>

\* ServeMux.ServeDNS on a message with a question: the matched handler starts
ServeDNS(r) ==
    /\ proc = "running"
    /\ reqs[r].st = "arrived"
    /\ ~ConnBusy(r)
    /\ Len(reqs[r].msg.question) >= 1
    /\ LET h == match(reqs[r].msg.question[1].Name, reqs[r].msg.question[1].Qtype)
       IN  reqs' = [reqs EXCEPT ![r].st = "handling", ![r].handler = h,
                                ![r].start = now,
                                ![r].orig = IF reqs[r].depth = 0 THEN h ELSE @]
    /\ UNCHANGED <<now, proc, lis>>

\* ServeMux.ServeDNS on a message without a question: no handler is looked
\* up and the mux answers with a failure status itself
Refuse(r) ==
    /\ proc = "running"
    /\ reqs[r].st = "arrived"
    /\ ~ConnBusy(r)
    /\ Len(reqs[r].msg.question) = 0
    /\ \E rc \in FailureRcodes :
          reqs' = [reqs EXCEPT ![r].st = "done", ![r].start = now,
                               ![r].resps = WriteMsg(r, SetRcode(reqs[r].msg, rc))]
    /\ UNCHANGED <<now, proc, lis>>

unknownHandler(r) ==
    /\ proc = "running"
    /\ reqs[r].st = "handling"
    /\ reqs[r].handler = "unknownHandler"
    /\ reqs' = [reqs EXCEPT ![r].st = "done",
                            ![r].resps = WriteMsg(r, unknownReply(reqs[r].msg))]
    /\ UNCHANGED <<now, proc, lis>>

cnamePitHandler(r) ==
    /\ proc = "running"
    /\ reqs[r].st = "handling"
    /\ reqs[r].handler = "cnamePitHandler"
    /\ reqs' = [reqs EXCEPT ![r].st = "done",
                            ![r].resps = WriteMsg(r, cnamePitReply(reqs[r].msg))]
    /\ UNCHANGED <<now, proc, lis>>

\* q.Question[0] of a message without a question is an index out of range:
\* the handler's goroutine panics, and nothing recovers it
manyCutsHandler(r) ==
    /\ proc = "running"
    /\ reqs[r].st = "handling"
    /\ reqs[r].handler = "manyCutsHandler"
    /\ IF Len(reqs[r].msg.question) = 0
       THEN /\ reqs' = [reqs EXCEPT ![r].st = "panicked"]
            /\ proc' = "crashed"
       ELSE /\ reqs' = [reqs EXCEPT ![r].st = "done",
                                    ![r].resps = WriteMsg(r, manyCutsReply(reqs[r].msg))]
            /\ proc' = proc
    /\ UNCHANGED <<now, lis>>

\* sleepHandler up to time.Sleep: the parse error is answered at once
sleepHandler(r) ==
    /\ proc = "running"
    /\ reqs[r].st = "handling"
    /\ reqs[r].handler = "sleepHandler"
    /\ LET p == sleepCount(reqs[r].msg) IN
       IF p.err # "nil"
       THEN reqs' = [reqs EXCEPT ![r].st = "done",
                       ![r].resps = WriteMsg(r,
                           txtError(reqs[r].msg, "failed to parse integer sleep time"))]
       ELSE reqs' = [reqs EXCEPT ![r].st = "sleeping",
                                 ![r].wakeAt = now + Duration(p.val)]
    /\ UNCHANGED <<now, proc, lis>>

\* sleepHandler from the return of time.Sleep: the empty reply is written
sleepReturn(r) ==
    /\ proc = "running"
    /\ reqs[r].st = "sleeping"
    /\ TimerFired(reqs[r].wakeAt)
    /\ reqs' = [reqs EXCEPT ![r].st = "done",
                            ![r].resps = WriteMsg(r, SetRcode(reqs[r].msg, "RcodeSuccess"))]
    /\ UNCHANGED <<now, proc, lis>>

\* the name a response points to: the CNAME target or the NS nameserver
Pointer(m) ==
    IF Len(m.Answer) >= 1 /\ m.Answer[1].Rrtype = "CNAME" THEN m.Answer[1].Target
    ELSE IF Len(m.Ns) >= 1 /\ m.Ns[1].Rrtype = "NS" THEN m.Ns[1].Ns
    ELSE <<>>

\* a resolver follows the CNAME or the referral: it asks for the name the
\* response points to
Follow(r) ==
    /\ proc = "running"
    /\ reqs[r].st = "done"
    /\ reqs[r].depth < MaxChain
    /\ Len(reqs[r].resps) >= 1
    /\ Pointer(reqs[r].resps[1].m) # <<>>
    /\ reqs' = [reqs EXCEPT ![r] =
                  [FreeReq EXCEPT !.st = "arrived", !.net = reqs[r].net,
                      !.conn = reqs[r].conn,
                      !.msg = Query(Pointer(reqs[r].resps[1].m),
                                    reqs[r].msg.question[1].Qtype),
                      !.orig = reqs[r].orig, !.depth = reqs[r].depth + 1]]
    /\ UNCHANGED <<now, proc, lis>>

\* a millisecond passes
Tick ==
    /\ proc = "running"
    /\ now < MaxTime
    /\ now' = now + 1
    /\ UNCHANGED <<reqs, proc, lis>>

\* time passes up to the moment a sleeping handler's timer expires
TimerElapse ==
    /\ proc = "running"
    /\ \E r \in ReqIds :
          /\ reqs[r].st = "sleeping"
          /\ reqs[r].wakeAt > now
          /\ now' = reqs[r].wakeAt
    /\ UNCHANGED <<reqs, proc, lis>>

\* udpServer.ListenAndServe() or tcpServer.ListenAndServe() returns an error;
\* its goroutine blocks sending it on errChan
ListenerFail(n) ==
    /\ proc = "running"
    /\ lis[n] = "serving"
    /\ lis' = [lis EXCEPT ![n] = "failed"]
    /\ UNCHANGED <<reqs, now, proc>>

\* main receives the first error from errChan and ends the process
MainRecv(n) ==
    /\ proc = "running"
    /\ lis[n] = "failed"
    /\ lis' = [lis EXCEPT ![n] = "reported"]
    /\ proc' = ExitOnErr("error")
    /\ UNCHANGED <<reqs, now>>

----------------------------------------------------------------------------
(* Specifications *)

HandlerStep(r) ==
    \/ unknownHandler(r)
    \/ cnamePitHandler(r)
    \/ manyCutsHandler(r)
    \/ sleepHandler(r)
    \/ sleepReturn(r)

\* the server with both listeners up: queries arrive on either transport
\* and are served concurrently; time moves from timer to timer
Init ==
    /\ reqs = [r \in ReqIds |-> FreeReq]
    /\ now = 0
    /\ proc = "running"
    /\ lis = [n \in Transports |-> "serving"]

Next ==
    \/ \E r \in ReqIds, m \in ServerMsgs, e \in Endpoints : Arrive(r, m, e)
    \/ \E r \in ReqIds : ServeDNS(r)
    \/ \E r \in ReqIds : Refuse(r)
    \/ \E r \in ReqIds : HandlerStep(r)
    \/ TimerElapse

Spec == Init /\ [][Next]_vars

\* main and the two listener goroutines, with one query in the server
NextListen ==
    \/ \E m \in ServerMsgs, e \in Endpoints : Arrive(1, m, e)
    \/ \E r \in ReqIds : ServeDNS(r)
    \/ \E r \in ReqIds : Refuse(r)
    \/ \E r \in ReqIds : HandlerStep(r)
    \/ TimerElapse
    \/ \E n \in Transports : ListenerFail(n)
    \/ \E n \in Transports : MainRecv(n)

ListenSpec == Init /\ [][NextListen]_vars

\* main is blocked on <-errChan: it runs as soon as a listener goroutine sends
FairListenSpec == ListenSpec /\ WF_vars(\E n \in Transports : MainRecv(n))

\* one query, any name and type, served through the mux, and the queries a
\* resolver sends after it
InitQuery ==
    /\ \E m \in AllMsgs, e \in { x \in Endpoints : x.conn <= 1 } :
          reqs = [r \in ReqIds |->
                    IF r = 1
                    THEN [FreeReq EXCEPT !.st = "arrived", !.net = e.net,
                                         !.conn = e.conn, !.msg = m]
                    ELSE FreeReq]
    /\ now = 0
    /\ proc = "running"
    /\ lis = [n \in Transports |-> "serving"]

NextQuery ==
    \/ \E r \in ReqIds : ServeDNS(r)
    \/ \E r \in ReqIds : Refuse(r)
    \/ \E r \in ReqIds : HandlerStep(r)
    \/ \E r \in ReqIds : Follow(r)
    \/ Tick
    \/ TimerElapse

QuerySpec == InitQuery /\ [][NextQuery]_vars

\* a handler called with any message
InitHandler ==
    /\ \E m \in AllMsgs, h \in Handlers :
          reqs = [r \in ReqIds |->
                    IF r = 1
                    THEN [FreeReq EXCEPT !.st = "handling", !.net = "udp",
                                         !.msg = m, !.handler = h, !.orig = h]
                    ELSE FreeReq]
    /\ now = 0
    /\ proc = "running"
    /\ lis = [n \in Transports |-> "serving"]

NextHandler ==
    \/ \E r \in ReqIds : HandlerStep(r)
    \/ Tick
    \/ TimerElapse

HandlerSpec == InitHandler /\ [][NextHandler]_vars

----------------------------------------------------------------------------
(* What the claims speak of *)

HasQuestion(r) == Len(reqs[r].msg.question) >= 1

Served(r) == reqs[r].st \in {"handling", "sleeping", "done", "panicked"}

IsDone(r) == reqs[r].st = "done"

QName(r) == reqs[r].msg.question[1].Name

QType(r) == reqs[r].msg.question[1].Qtype

\* name equals zone or ends with it on a label boundary (DNS names compare
\* without regard to case)
UnderZone(name, zone) ==
    LET c == ToLower(name)
        z == ToLower(zone)
    IN  \E k \in 1..Len(c) :
           /\ SubSeq(c, k, Len(c)) = z
           /\ (k = 1 \/ c[k - 1] = Dot)

ExpectedHandler(name) ==
    IF UnderZone(name, sCnamepit \o basename \o <<Dot>>) THEN "cnamePitHandler"
    ELSE IF UnderZone(name, sManycuts \o basename \o <<Dot>>) THEN "manyCutsHandler"
    ELSE IF UnderZone(name, sSleep \o basename \o <<Dot>>) THEN "sleepHandler"
    ELSE "unknownHandler"

\* the text of name before its first dot
FirstLabel(name) ==
    LET k == CHOOSE i \in 1..Len(name) :
                 name[i] = Dot /\ \A j \in 1..(i - 1) : name[j] # Dot
    IN  SubSeq(name, 1, k - 1)

DigitChars == {"0", "1", "2", "3", "4", "5", "6", "7", "8", "9"}

Unsigned(l) == IF Len(l) >= 1 /\ l[1] \in {"+", "-"} THEN Tail(l) ELSE l

\* l is an optional sign and at least one decimal digit
IsDecimal(l) ==
    /\ Len(Unsigned(l)) >= 1
    /\ \A i \in 1..Len(Unsigned(l)) : Unsigned(l)[i] \in DigitChars

RECURSIVE Pow10(_)
Pow10(n) == IF n = 0 THEN 1 ELSE 10 * Pow10(n - 1)

RECURSIVE PlaceSum(_, _)
PlaceSum(d, i) ==
    IF i > Len(d) THEN 0
    ELSE DigitVal(d[i]) * Pow10(Len(d) - i) + PlaceSum(d, i + 1)

\* the number a decimal label denotes
DecimalValue(l) ==
    IF Len(l) >= 1 /\ l[1] = "-" THEN 0 - PlaceSum(Unsigned(l), 1)
    ELSE PlaceSum(Unsigned(l), 1)

InInt16(l) == IsDecimal(l) /\ DecimalValue(l) >= -32768 /\ DecimalValue(l) <= 32767

\* a fully qualified name without an empty label
WellFormedName(n) ==
    \/ n = sRoot
    \/ /\ Len(n) >= 2
       /\ n[Len(n)] = Dot
       /\ n[1] # Dot
       /\ \A i \in 1..(Len(n) - 1) : ~(n[i] = Dot /\ n[i + 1] = Dot)

TrapHandlers == {"cnamePitHandler", "manyCutsHandler"}

----------------------------------------------------------------------------
(* C1 *)

C2CnamePit ==
    \A r \in ReqIds :
        (Served(r) /\ HasQuestion(r) /\ reqs[r].handler = "cnamePitHandler") =>
            /\ reqs[r].st \in {"handling", "done"}
            /\ reqs[r].st = "handling" => reqs[r].resps = <<>>
            /\ IsDone(r) =>
                 /\ Len(reqs[r].resps) = 1
                 /\ LET m == reqs[r].resps[1].m IN
                      /\ m.Rcode = "RcodeSuccess"
                      /\ Len(m.Answer) = 1
                      /\ m.Answer[1].Rrtype = "CNAME"
                      /\ m.Answer[1].Name = QName(r)
                      /\ m.Answer[1].Target = <<"q", ".">> \o QName(r)
                      /\ m.Ns = <<>>
                      /\ m.Extra = <<>>

C2Witness ==
    \E r \in ReqIds :
        /\ IsDone(r) /\ HasQuestion(r) /\ reqs[r].depth = 0
        /\ reqs[r].handler = "cnamePitHandler"
        /\ QName(r) = <<"1", ".">> \o sCnamepit \o basename \o <<Dot>>
        /\ Len(reqs[r].resps) = 1

(* C3 *)

\* C3: a query with name N given to the many-cuts handler is answered once,
\* with status success, an empty answer section, an authority section of
\* exactly one NS record (owner N, nameserver "q." + N) and an additional
\* section of exactly one A record (owner "q." + N, the advertised address).
C3ManyCuts ==
    \A r \in ReqIds :
        (Served(r) /\ HasQuestion(r) /\ reqs[r].handler = "manyCutsHandler") =>
            /\ reqs[r].st \in {"handling", "done"}
            /\ reqs[r].st = "handling" => reqs[r].resps = <<>>
            /\ IsDone(r) =>
                 /\ Len(reqs[r].resps) = 1
                 /\ LET m == reqs[r].resps[1].m IN
                      /\ m.Rcode = "RcodeSuccess"
                      /\ m.Answer = <<>>
                      /\ Len(m.Ns) = 1
                      /\ m.Ns[1].Rrtype = "NS"
                      /\ m.Ns[1].Name = QName(r)
                      /\ m.Ns[1].Ns = <<"q", ".">> \o QName(r)
                      /\ Len(m.Extra) = 1
                      /\ m.Extra[1].Rrtype = "A"
                      /\ m.Extra[1].Name = <<"q", ".">> \o QName(r)
                      /\ m.Extra[1].A = <<127, 0, 0, 1>>

C3Witness ==
    \E r \in ReqIds :
        /\ IsDone(r) /\ HasQuestion(r) /\ reqs[r].depth = 0
        /\ reqs[r].handler = "manyCutsHandler"
        /\ QName(r) = sManycuts \o basename \o <<Dot>>
        /\ Len(reqs[r].resps) = 1

(* C4 *)

C5Latency ==
    \A r \in ReqIds :
        (Served(r) /\ HasQuestion(r) /\ reqs[r].handler = "sleepHandler"
           /\ InInt16(FirstLabel(QName(r)))
           /\ DecimalValue(FirstLabel(QName(r))) >= 0) =>
            /\ reqs[r].st \in {"handling", "sleeping", "done"}
            /\ ~IsDone(r) => reqs[r].resps = <<>>
            /\ IsDone(r) =>
                 /\ Len(reqs[r].resps) = 1
                 /\ reqs[r].resps[1].at - reqs[r].start
                       >= DecimalValue(FirstLabel(QName(r)))
                 /\ reqs[r].resps[1].m.Rcode = "RcodeSuccess"
                 /\ reqs[r].resps[1].m.Answer = <<>>

C5Witness ==
    \E r \in ReqIds :
        /\ IsDone(r) /\ HasQuestion(r) /\ reqs[r].handler = "sleepHandler"
        /\ FirstLabel(QName(r)) = <<"3", "2", "7", "6", "7">>
        /\ reqs[r].resps[1].at >= reqs[r].start + 32767
        /\ reqs[r].resps[1].m.Answer = <<>>

(* C6 *)

\* C6: a query with name N given to the sleep handler whose first label is
\* not a decimal integer in -32768..32767 is never put to sleep and gets
\* exactly one response: status success and one TXT record, owner N, text
\* "failed to parse integer sleep time"; no empty response is written.
C6ParseError ==
    \A r \in ReqIds :
        (Served(r) /\ reqs[r].handler = "sleepHandler"
           /\ ~InInt16(FirstLabel(qname(reqs[r].msg)))) =>
            /\ reqs[r].st \in {"handling", "done"}
            /\ reqs[r].st = "handling" => reqs[r].resps = <<>>
            /\ IsDone(r) =>
                 /\ Len(reqs[r].resps) = 1
                 /\ LET m == reqs[r].resps[1].m IN
                      /\ m.Rcode = "RcodeSuccess"
                      /\ Len(m.Answer) = 1
                      /\ m.Answer[1].Rrtype = "TXT"
                      /\ m.Answer[1].Name = qname(reqs[r].msg)
                      /\ m.Answer[1].Txt = <<"failed to parse integer sleep time">>
                      /\ m.Ns = <<>>
                      /\ m.Extra = <<>>

C6Witness ==
    \E r \in ReqIds :
        /\ IsDone(r) /\ HasQuestion(r) /\ reqs[r].handler = "sleepHandler"
        /\ QName(r) = <<"3", "2", "7", "6", "8", ".">> \o sSleep \o basename \o <<Dot>>
        /\ Len(reqs[r].resps) = 1
        /\ reqs[r].resps[1].m.Answer[1].Rrtype = "TXT"

(* C7 *)

IsPitQuery(r) ==
    HasQuestion(r) /\ ExpectedHandler(QName(r)) = "cnamePitHandler"

\* the next step of a CNAME-pit query can be taken now
PitCanProceed(c) ==
    /\ reqs[c].st = "arrived" => ENABLED ServeDNS(c)
    /\ reqs[c].st = "handling" => ENABLED cnamePitHandler(c)

C8NoQuestionDefault ==
    \A r \in ReqIds :
        (IsDone(r) /\ ~HasQuestion(r)) =>
            /\ reqs[r].handler = "unknownHandler"
            /\ Len(reqs[r].resps) = 1
            /\ LET m == reqs[r].resps[1].m IN
                 /\ m.Rcode = "RcodeSuccess"
                 /\ Len(m.Answer) = 1
                 /\ m.Answer[1].Rrtype = "TXT"
                 /\ m.Answer[1].Name = sRoot
                 /\ m.Answer[1].Txt # <<"">>

(* C9 *)

\* C9: once either listener has returned its error, whatever the other is
\* doing, the process ends.
C9FailTogether ==
    (\E n \in Transports : lis[n] = "failed") ~> (proc # "running")

C9Witness ==
    /\ proc = "fatal"
    /\ \E n \in Transports, o \in Transports :
          n # o /\ lis[n] = "reported" /\ lis[o] = "serving"

(* C10 *)

\* every name of a response is well formed
NamesWellFormed(m) ==
    /\ \A i \in 1..Len(m.Answer) :
          /\ WellFormedName(m.Answer[i].Name)
          /\ m.Answer[i].Rrtype = "CNAME" => WellFormedName(m.Answer[i].Target)
    /\ \A i \in 1..Len(m.Ns) :
          /\ WellFormedName(m.Ns[i].Name)
          /\ WellFormedName(m.Ns[i].Ns)
    /\ \A i \in 1..Len(m.Extra) : WellFormedName(m.Extra[i].Name)

\* C10, as stated: each of the four handlers, called with a query that has
\* no question, completes without a fault and writes one well-formed
\* response whose names derive from ".".
C10NoQuestionHandlers ==
    \A r \in ReqIds :
        (Served(r) /\ ~HasQuestion(r)) =>
            /\ reqs[r].st # "panicked"
            /\ proc # "crashed"
            /\ IsDone(r) =>
                 /\ Len(reqs[r].resps) = 1
                 /\ reqs[r].resps[1].m.Rcode = "RcodeSuccess"
                 /\ NamesWellFormed(reqs[r].resps[1].m)

====
